---- MODULE Spec2Model ----
(***************************************************************************)
(* rust-trending: the discovery -> denylist -> dedup -> format -> publish  *)
(* loop of src/main.rs, with the pure functions it calls.                  *)
(*                                                                         *)
(* A Rust String is modelled as the sequence of its characters (Unicode    *)
(* scalar values); a character is a TLA+ string naming it.  str::len is    *)
(* the sum of the characters' UTF-8 widths.  A usize is modelled by its    *)
(* two's-complement reading: a negative integer -k stands for the wrapped  *)
(* value 2^64 - k, and ULt is the unsigned order.                          *)
(***************************************************************************)
EXTENDS Integers, Sequences, FiniteSets, TLC

VARIABLES
    overflow_checks,  \* build profile: TRUE = arithmetic overflow panics (debug)
    config,           \* Config: configured destinations and denylist
    pc,               \* position of the main task
    repos,            \* main_loop: items of the batch not yet iterated
    repo,             \* main_loop: the item of the current iteration
    store,            \* redis: key -> remaining time-to-live (0 = no record)
    checked,          \* history: outcome of the current item's skip test
    sent,             \* history: publish attempts of the current item, per destination
    posted,           \* history: publish attempts per identity and destination
    fetched,          \* history: outcome of the last fetch_repos
    fsleeps,          \* history: discovery-interval sleeps since the last fetch
    storeFailed,      \* history: some redis command has failed
    expired,          \* history: some dedup record has expired
    marked,           \* history: outcome of the current item's mark_posted_repo
    live,             \* history: identity -> time left of its last successful mark
    quiet,            \* history: destination -> a sleep ended since its last attempt
    fresh,            \* history: no item of the fetched batch has been taken yet
    d_in,             \* DenylistConfig::contains: the input <<denylist, repo>>
    d_out,            \* DenylistConfig::contains: the results returned so far
    f_in,             \* formatters: the input <<destination, repo>>
    f_out,            \* formatters: the results returned so far
    blacklist,        \* lib.rs Config: the blacklist
    rl_pc,            \* lib.rs run_loop: position of the stream pipeline
    rl_repos,         \* lib.rs run_loop: items of the inner stream not yet pulled
    rl_repo,          \* lib.rs run_loop: the item handed to for_each
    rl_store,         \* lib.rs redis: key -> time-to-live (0 = none, -1 = no expiry)
    rl_asked,         \* history: items given to is_repo_already_tweeted
    rl_tweet,         \* history: outcome of the last tweet_repo
    rl_error,         \* history: the error that ended run_loop
    rl_live           \* history: identity -> time-to-live its own mark left it

loopVars == <<overflow_checks, config, pc, repos, repo, store, checked, sent,
              posted, fetched, fsleeps, storeFailed, expired, marked, live, quiet,
              fresh>>
pureVars == <<d_in, d_out>>
fmtVars == <<f_in, f_out>>
libVars == <<blacklist, rl_pc, rl_repos, rl_repo, rl_store, rl_asked, rl_tweet,
             rl_error, rl_live>>
otherVars == <<pureVars, fmtVars, libVars>>
vars == <<loopVars, fresh, otherVars>>

-----------------------------------------------------------------------------
(* Bounds of the model *)

MaxBatch == 2      \* items in one discovery batch
PostTtl == 2       \* config.interval.post_ttl, in ticks of the store's clock
MaxCount == 2      \* the attempt counters saturate here
MaxEntries == 1    \* entries per denylist list in the inputs of contains
MaxNeedleLen == 2  \* characters per entry of denylist.descriptions
MaxDescLen == 3    \* characters per description in the inputs of contains
MaxAuthorLen == 39 \* characters of the longest author in the inputs of the formatters
MaxNameLen == 100  \* characters of the longest name in the inputs of the formatters
Slack == 1         \* description lengths tried: within Slack of each length_left
TweetTtl == 2      \* lib.rs config.tweet_ttl, in ticks of the store's clock

-----------------------------------------------------------------------------
(* Program constants *)

TWEET_LENGTH == 280
TOOT_LENGTH == 500
BLUESKY_POST_LENGTH == 300
MASTODON_FIXED_URL_LENGTH == 23
SMALL_COMMERCIAL_AT == "AT3"     \* U+FE6B, three bytes in UTF-8

-----------------------------------------------------------------------------
(* Strings *)

\* UTF-8 width of a character.  "E2" is a two-byte letter (U+00E9), "AT3" is
\* U+FE6B, "STAR" is U+2605, "R4" a four-byte emoji, "CM" the combining acute
\* accent (U+0301), "RI" a regional indicator (U+1F1E6..); every other
\* character is ASCII.
Width(c) ==
    CASE c = "E2" -> 2
      [] c = "CM" -> 2
      [] c = "AT3" -> 3
      [] c = "STAR" -> 3
      [] c = "R4" -> 4
      [] c = "RI" -> 4
      [] OTHER -> 1

\* the bytes of the characters lo..hi of s, summed by halves
RECURSIVE BytesIn(_, _, _)
BytesIn(s, lo, hi) ==
    IF lo > hi THEN 0
    ELSE IF lo = hi THEN Width(s[lo])
    ELSE LET m == (lo + hi) \div 2
         IN  BytesIn(s, lo, m) + BytesIn(s, m + 1, hi)

\* str::len: the length in bytes
ByteLen(s) == BytesIn(s, 1, Len(s))

Rep(c, n) == [i \in 1..n |-> c]

\* str::replace('@', SMALL_COMMERCIAL_AT)
ReplaceAt(s) == [i \in DOMAIN s |-> IF s[i] = "@" THEN SMALL_COMMERCIAL_AT ELSE s[i]]

\* char::to_lowercase of the characters the model uses
LowerChar(c) ==
    CASE c = "A" -> "a"
      [] c = "S" -> "s"
      [] c = "P" -> "p"
      [] c = "M" -> "m"
      [] OTHER -> c

\* str::to_lowercase
to_lowercase(s) == [i \in DOMAIN s |-> LowerChar(s[i])]

\* the decimal digits of a usize, as Display prints it
Digit(n) ==
    CASE n = 0 -> "0" [] n = 1 -> "1" [] n = 2 -> "2" [] n = 3 -> "3"
      [] n = 4 -> "4" [] n = 5 -> "5" [] n = 6 -> "6" [] n = 7 -> "7"
      [] n = 8 -> "8" [] n = 9 -> "9"

RECURSIVE Display(_)
Display(n) == IF n < 10 THEN <<Digit(n)>> ELSE Display(n \div 10) \o <<Digit(n % 10)>>

-----------------------------------------------------------------------------
(* usize arithmetic and panics *)

Ok(v) == [panic |-> FALSE, val |-> v]
Panic == [panic |-> TRUE, val |-> <<>>]

\* unsigned order on the two's-complement reading
ULt(a, b) ==
    IF (a < 0) = (b < 0) THEN a < b ELSE b < 0

\* a - b on usize: panics on overflow when the build checks it, wraps otherwise
USub(a, b) ==
    IF ULt(a, b) /\ overflow_checks THEN Panic ELSE Ok(a - b)

\* the number of characters of s that make up its first mid bytes, or -1 when
\* mid is not on a character boundary of s (str::is_char_boundary); the
\* character offsets lo..hi are searched by halves
RECURSIVE BoundaryIn(_, _, _, _)
BoundaryIn(s, lo, hi, mid) ==
    IF lo > hi THEN -1
    ELSE LET k == (lo + hi) \div 2
             bytes == BytesIn(s, 1, k)
         IN  IF bytes = mid THEN k
             ELSE IF bytes < mid THEN BoundaryIn(s, k + 1, hi, mid)
             ELSE BoundaryIn(s, lo, k - 1, mid)

\* str::split_at(mid): panics when mid is past the end or inside a character
split_at(s, mid) ==
    IF mid < 0 THEN Panic
    ELSE LET k == BoundaryIn(s, 0, Len(s), mid)
         IN  IF k < 0 THEN Panic
             ELSE Ok(<<SubSeq(s, 1, k), SubSeq(s, k + 1, Len(s))>>)

-----------------------------------------------------------------------------
(* Content formatter *)

make_repo_title(r) ==
    IF r.author # r.name
    THEN r.author \o <<" ", "/", " ">> \o r.name
    ELSE r.name

make_post_prefix(r) == make_repo_title(r) \o <<":", " ">>

make_post_stars(r) == <<" ", "STAR">> \o Display(r.stars)

GithubUrl == <<"h", "t", "t", "p", "s", ":", "/", "/",
               "g", "i", "t", "h", "u", "b", ".", "c", "o", "m", "/">>

make_post_url(r) == <<" ">> \o GithubUrl \o r.author \o <<"/">> \o r.name

Ellipsis == <<" ", ".", ".", ".">>

\* a mutant of make_post_description: a description of exactly length_left
\* bytes is left whole
make_post_description_Inclusive(r, length_left) ==
    LET description == ReplaceAt(r.description)
    IN  IF ~ULt(length_left, ByteLen(r.description))
        THEN Ok(description)
        ELSE LET mid == USub(length_left, 4)
             IN  IF mid.panic THEN Panic
                 ELSE LET parts == split_at(description, mid.val)
                      IN  IF parts.panic THEN Panic
                          ELSE Ok(parts.val[1] \o Ellipsis)

make_post_description(r, length_left) ==
    LET description == ReplaceAt(r.description)
    IN  IF ULt(ByteLen(r.description), length_left)
        THEN Ok(description)
        ELSE LET mid == USub(length_left, 4)
             IN  IF mid.panic THEN Panic
                 ELSE LET parts == split_at(description, mid.val)
                      IN  IF parts.panic THEN Panic
                          ELSE Ok(parts.val[1] \o Ellipsis)

\* the body shared by make_tweet, make_toot and post_bluesky: budget is the
\* destination's length, urlLen what the URL is counted as
FormatPost(r, budget, urlLen) ==
    LET prefix == make_post_prefix(r)
        stars == make_post_stars(r)
        url == make_post_url(r)
        length_left == USub(budget, ByteLen(prefix) + ByteLen(stars) + urlLen)
    IN  IF length_left.panic THEN Panic
        ELSE LET description == make_post_description(r, length_left.val)
             IN  IF description.panic THEN Panic
                 ELSE Ok(prefix \o description.val \o stars \o url)

make_tweet(r) == FormatPost(r, TWEET_LENGTH, ByteLen(make_post_url(r)))

make_toot(r) == FormatPost(r, TOOT_LENGTH, MASTODON_FIXED_URL_LENGTH)

bluesky_text(r) == FormatPost(r, BLUESKY_POST_LENGTH, ByteLen(make_post_url(r)))

\* tweet_repo of lib.rs, up to the text it hands to update_status: the same
\* budget (lib.rs has its own TWEET_LENGTH = 280), the URL taken from the
\* item, and no replacement of '@'
tweet_repo(r) ==
    LET name == IF r.author # r.name
                THEN r.author \o <<" ", "/", " ">> \o r.name \o <<":", " ">>
                ELSE r.name \o <<":", " ">>
        stars == <<" ", "STAR">> \o Display(r.stars)
        url == <<" ">> \o r.url
        length_left == USub(TWEET_LENGTH, ByteLen(name) + ByteLen(stars) + ByteLen(url))
    IN  IF length_left.panic THEN Panic
        ELSE IF ULt(ByteLen(r.description), length_left.val)
        THEN Ok(name \o r.description \o stars \o url)
        ELSE LET mid == USub(length_left.val, 4)
             IN  IF mid.panic THEN Panic
                 ELSE LET parts == split_at(r.description, mid.val)
                      IN  IF parts.panic THEN Panic
                          ELSE Ok(name \o parts.val[1] \o Ellipsis \o stars \o url)

-----------------------------------------------------------------------------
(* Denylist filter *)

\* Vec<String>::contains: the first equal element ends the scan
RECURSIVE VecContains(_, _)
VecContains(v, x) ==
    IF v = <<>> THEN FALSE
    ELSE IF Head(v) = x THEN TRUE
    ELSE VecContains(Tail(v), x)

\* whether needle matches hay at character offset i
MatchesAt(hay, i, needle) ==
    /\ i + Len(needle) <= Len(hay)
    /\ \A j \in 1..Len(needle) : hay[i + j] = needle[j]

\* str::contains(&str): a match at some offset
str_contains(hay, needle) ==
    \E i \in 0..Len(hay) : MatchesAt(hay, i, needle)

\* a mutant of DescriptionMatches: the denylist entry is not lower-cased
DescriptionMatches_EntryAsIs(r, description) ==
    str_contains(to_lowercase(r.description), description)

\* one step of the map closure of contains
DescriptionMatches(r, description) ==
    str_contains(to_lowercase(r.description), to_lowercase(description))

\* descriptions.iter().map(..).any(|b| b)
RECURSIVE AnyDescription(_, _)
AnyDescription(descriptions, r) ==
    IF descriptions = <<>> THEN FALSE
    ELSE IF DescriptionMatches(r, Head(descriptions)) THEN TRUE
    ELSE AnyDescription(Tail(descriptions), r)

\* DenylistConfig::contains
contains(denylist, r) ==
    \/ VecContains(denylist.names, r.name)
    \/ VecContains(denylist.authors, r.author)
    \/ AnyDescription(denylist.descriptions, r)

-----------------------------------------------------------------------------
(* The items and configurations the control loop is run on *)

Dest == {"twitter", "mastodon", "bluesky"}

NewRepo(a, n, d, s) == [author |-> a, name |-> n, description |-> d, stars |-> s]

\* an ordinary item
RepoPlain == NewRepo(<<"f">>, <<"b">>, <<"o", "k">>, 0)
\* the same repository seen with another description and star count; the
\* description is one DenySome excludes
RepoSpam == NewRepo(<<"f">>, <<"b">>, <<"s", "P", "A", "M", "!">>, 12)
\* author = name, and a description of 118 four-byte emoji (472 bytes): too
\* long for every destination, and only every fourth byte offset is a
\* character boundary
RepoLong == NewRepo(<<"g">>, <<"g">>, Rep("R4", 118), 5)

Repos == {RepoPlain, RepoSpam, RepoLong}

NoRepo == NewRepo(<<>>, <<>>, <<>>, 0)

DenyNone == [names |-> <<>>, authors |-> <<>>, descriptions |-> <<>>]
DenySome == [names |-> <<>>, authors |-> << <<"x">> >>,
             descriptions |-> << <<"S", "p", "a", "m">> >>]

Configs ==
    [twitter : BOOLEAN, mastodon : BOOLEAN, bluesky : BOOLEAN,
     denylist : {DenyNone, DenySome}]

SeqsUpTo(S, n) == UNION {[1..k -> S] : k \in 0..n}

\* what fetch_repos can return
Batches == SeqsUpTo(Repos, MaxBatch)

\* the redis key of an item: format!("{}/{}", repo.author, repo.name)
KeyOf(r) == r.author \o <<"/">> \o r.name

\* a mutant of MarkKey: the record is written under the name alone
MarkKey_NameOnly(r) == r.name

\* mark_posted_repo: let key = format!("{}/{}", repo.author, repo.name)
MarkKey(r) == KeyOf(r)

\* the keys of the store that a command of the program can name
Keys == {KeyOf(r) : r \in Repos} \cup {r.name : r \in Repos}

\* the identity of an item
Identity(r) == <<r.author, r.name>>

Identities == {Identity(r) : r \in Repos}

NoneSent == [d \in Dest |-> <<>>]

Bump(n) == IF n < MaxCount THEN n + 1 ELSE MaxCount

\* the bookkeeping of one publish attempt of the current item to d
Attempt(d, outcome) ==
    /\ sent' = [sent EXCEPT ![d] = Append(@, outcome)]
    /\ posted' = [posted EXCEPT ![Identity(repo)][d] = Bump(@)]
    /\ quiet' = [quiet EXCEPT ![d] = FALSE]

\* a sleep of the main task has ended
Slept == quiet' = [d \in Dest |-> TRUE]

-----------------------------------------------------------------------------
(* main and main_loop *)

IdlePure == d_in = <<DenyNone, NoRepo>> /\ d_out = <<>>

\* no formatter is being exercised on its own
IdleFmt == f_in = <<"none", NoRepo>> /\ f_out = <<>>

\* run_loop of lib.rs is not running
LibOff ==
    /\ blacklist = [names |-> <<>>, authors |-> <<>>]
    /\ rl_pc = "off"
    /\ rl_repos = <<>>
    /\ rl_repo = NoRepo
    /\ rl_store = <<>>
    /\ rl_asked = <<>>
    /\ rl_tweet = "none"
    /\ rl_error = "none"
    /\ rl_live = <<>>

Init ==
    /\ overflow_checks \in BOOLEAN
    /\ config \in Configs
    /\ pc = "fetch"
    /\ repos = <<>>
    /\ repo = NoRepo
    /\ store = [k \in Keys |-> 0]
    /\ checked = "none"
    /\ sent = NoneSent
    /\ posted = [id \in Identities |-> [d \in Dest |-> 0]]
    /\ fetched = "none"
    /\ fsleeps = 0
    /\ storeFailed = FALSE
    /\ expired = FALSE
    /\ marked = "none"
    /\ live = [id \in Identities |-> 0]
    /\ quiet = [d \in Dest |-> TRUE]
    /\ fresh = TRUE
    /\ IdlePure
    /\ IdleFmt
    /\ LibOff

\* a mutant of FetchFails: the next fetch is tried at once, without main's sleep
FetchFails_NoSleep ==
    /\ fetched' = "err"
    /\ repos' = <<>>
    /\ pc' = "fetch"

\* fetch_repos().await.context("While fetching repo")? with an Err: main_loop
\* returns it to main, which logs it and goes to its sleep
FetchFails ==
    /\ fetched' = "err"
    /\ repos' = <<>>
    /\ pc' = "fetch_sleep"

\* main_loop: let repos = fetch_repos().await.context(..)?
Fetch ==
    /\ pc = "fetch"
    /\ fsleeps' = 0
    /\ fresh' = TRUE
    /\ \/ FetchFails
       \/ /\ \E batch \in Batches : repos' = batch
          /\ fetched' = "ok"
          /\ pc' = "for"
    /\ UNCHANGED <<overflow_checks, config, repo, store, checked, sent, posted,
                   storeFailed, expired, marked, live, quiet, otherVars>>

\* a mutant of ForRepo: the batch is walked from its end
ForRepo_FromEnd ==
    /\ pc = "for"
    /\ IF repos = <<>>
       THEN /\ pc' = "fetch_sleep"
            /\ UNCHANGED <<repos, repo, checked, sent, marked, fresh>>
       ELSE /\ repo' = repos[Len(repos)]
            /\ repos' = SubSeq(repos, 1, Len(repos) - 1)
            /\ checked' = "none"
            /\ sent' = NoneSent
            /\ marked' = "none"
            /\ fresh' = FALSE
            /\ pc' = "check"
    /\ UNCHANGED <<overflow_checks, config, store, posted, fetched, fsleeps,
                   storeFailed, expired, live, quiet, otherVars>>

\* main_loop: the head of `for repo in repos`; an exhausted batch returns Ok(())
ForRepo ==
    /\ pc = "for"
    /\ IF repos = <<>>
       THEN /\ pc' = "fetch_sleep"
            /\ UNCHANGED <<repos, repo, checked, sent, marked, fresh>>
       ELSE /\ repo' = Head(repos)
            /\ repos' = Tail(repos)
            /\ checked' = "none"
            /\ sent' = NoneSent
            /\ marked' = "none"
            /\ fresh' = FALSE
            /\ pc' = "check"
    /\ UNCHANGED <<overflow_checks, config, store, posted, fetched, fsleeps,
                   storeFailed, expired, live, quiet, otherVars>>

\* a mutant of SkipDenied: the denylist is not consulted
SkipDenied_Passes ==
    /\ checked' = "absent"
    /\ pc' = "twitter"
    /\ UNCHANGED <<repos, storeFailed>>

\* config.denylist.contains(&repo) is true: continue, and || does not
\* evaluate is_repo_posted
SkipDenied ==
    /\ checked' = "denied"
    /\ pc' = "for"
    /\ UNCHANGED <<repos, storeFailed>>

\* a mutant of CheckFails: a failed check counts as "not posted yet"
CheckFails_Publishes ==
    /\ checked' = "error"
    /\ storeFailed' = TRUE
    /\ pc' = "twitter"
    /\ UNCHANGED repos

\* is_repo_posted(..).await.context("While checking repo posted")? with an
\* Err: main_loop returns it to main and the rest of the batch is dropped
CheckFails ==
    /\ checked' = "error"
    /\ storeFailed' = TRUE
    /\ repos' = <<>>
    /\ pc' = "fetch_sleep"

\* a mutant of CheckAnswers: the answer of EXISTS is not acted on
CheckAnswers_Ignored ==
    /\ checked' = IF store[KeyOf(repo)] > 0 THEN "present" ELSE "absent"
    /\ pc' = "twitter"
    /\ UNCHANGED <<repos, storeFailed>>

\* is_repo_posted: conn.exists(key) answers; true is `continue`
CheckAnswers ==
    /\ checked' = IF store[KeyOf(repo)] > 0 THEN "present" ELSE "absent"
    /\ pc' = IF store[KeyOf(repo)] > 0 THEN "for" ELSE "twitter"
    /\ UNCHANGED <<repos, storeFailed>>

\* main_loop: if denylist.contains(&repo) || is_repo_posted(..).await? { continue }
SkipTest ==
    /\ pc = "check"
    /\ IF contains(config.denylist, repo)
       THEN SkipDenied
       ELSE CheckFails \/ CheckAnswers
    /\ UNCHANGED <<overflow_checks, config, repo, store, sent, posted, fetched,
                   fsleeps, expired, marked, live, quiet, fresh, otherVars>>

\* a mutant of Unconfigured: a destination without configuration is an error
\* that main_loop returns
Unconfigured_IsError(next) ==
    /\ pc' = "fetch_sleep"
    /\ UNCHANGED <<sent, posted, quiet>>

\* `if let Some(config) = &config.<destination>` does not match: nothing is
\* done and main_loop goes on to the next destination
Unconfigured(next) ==
    /\ pc' = next
    /\ UNCHANGED <<sent, posted, quiet>>

\* main_loop: if let Some(config) = &config.twitter { make_tweet; tweet(..).await }
Tweet ==
    /\ pc = "twitter"
    /\ IF ~config.twitter
       THEN Unconfigured("mastodon")
       ELSE IF make_tweet(repo).panic
       THEN pc' = "panicked" /\ UNCHANGED <<sent, posted, quiet>>
       ELSE /\ \E outcome \in {"ok", "err"} : Attempt("twitter", outcome)
            /\ pc' = "mastodon"
    /\ UNCHANGED <<overflow_checks, config, repos, repo, store, checked, fetched,
                   fsleeps, storeFailed, expired, marked, live, fresh, otherVars>>

\* main_loop: if let Some(config) = &config.mastodon { make_toot; toot(..).await }
Toot ==
    /\ pc = "mastodon"
    /\ IF ~config.mastodon
       THEN Unconfigured("bluesky")
       ELSE IF make_toot(repo).panic
       THEN pc' = "panicked" /\ UNCHANGED <<sent, posted, quiet>>
       ELSE /\ \E outcome \in {"ok", "err"} : Attempt("mastodon", outcome)
            /\ pc' = "bluesky"
    /\ UNCHANGED <<overflow_checks, config, repos, repo, store, checked, fetched,
                   fsleeps, storeFailed, expired, marked, live, fresh, otherVars>>

\* main_loop: if let Some(config) = &config.bluesky { post_bluesky(..).await }
\* post_bluesky fetches the thumbnail first (its error is returned before the
\* text is formatted), then formats, then talks to the server.
PostBluesky ==
    /\ pc = "bluesky"
    /\ IF ~config.bluesky
       THEN Unconfigured("mark")
       ELSE \/ /\ Attempt("bluesky", "err")
               /\ pc' = "mark"
            \/ IF bluesky_text(repo).panic
               THEN /\ Attempt("bluesky", "panic")
                    /\ pc' = "panicked"
               ELSE /\ \E outcome \in {"ok", "err"} : Attempt("bluesky", outcome)
                    /\ pc' = "mark"
    /\ UNCHANGED <<overflow_checks, config, repos, repo, store, checked, fetched,
                   fsleeps, storeFailed, expired, marked, live, fresh, otherVars>>

\* a mutant of MarkSucceeds: the record is not written
MarkSucceeds_NoRecord ==
    /\ UNCHANGED store
    /\ live' = [live EXCEPT ![Identity(repo)] = PostTtl]
    /\ marked' = "ok"
    /\ pc' = "post_sleep"
    /\ UNCHANGED <<repos, storeFailed>>

\* a mutant of MarkFails: main starts the next turn without its sleep
MarkFails_NoSleep ==
    /\ marked' = "err"
    /\ storeFailed' = TRUE
    /\ repos' = <<>>
    /\ pc' = "fetch"
    /\ UNCHANGED <<store, live>>

\* a mutant of PostSleep: the iteration ends without waiting
PostSleep_NoWait ==
    /\ pc = "post_sleep"
    /\ pc' = "for"
    /\ UNCHANGED <<overflow_checks, config, repos, repo, store, checked, sent,
                   posted, fetched, fsleeps, storeFailed, expired, marked, live,
                   quiet, fresh, otherVars>>

\* mark_posted_repo: conn.set_ex(key, now_ts(), ttl) succeeds: SETEX writes
\* the record and its expiry in one command
MarkSucceeds ==
    /\ store' = [store EXCEPT ![MarkKey(repo)] = PostTtl]
    /\ live' = [live EXCEPT ![Identity(repo)] = PostTtl]
    /\ marked' = "ok"
    /\ pc' = "post_sleep"
    /\ UNCHANGED <<repos, storeFailed>>

\* mark_posted_repo(..).await.context("While marking repo posted")? with an
\* Err: the command wrote nothing, main_loop returns the error to main and
\* the rest of the batch is dropped
MarkFails ==
    /\ marked' = "err"
    /\ storeFailed' = TRUE
    /\ repos' = <<>>
    /\ pc' = "fetch_sleep"
    /\ UNCHANGED <<store, live>>

\* main_loop: mark_posted_repo(redis_conn, &repo, config.interval.post_ttl).await?
MarkPosted ==
    /\ pc = "mark"
    /\ (MarkSucceeds \/ MarkFails)
    /\ UNCHANGED <<overflow_checks, config, repo, checked, sent, posted, fetched,
                   fsleeps, expired, quiet, fresh, otherVars>>

\* main_loop: tokio::time::sleep(post_interval) at the end of an iteration
PostSleep ==
    /\ pc = "post_sleep"
    /\ pc' = "for"
    /\ Slept
    /\ UNCHANGED <<overflow_checks, config, repos, repo, store, checked, sent,
                   posted, fetched, fsleeps, storeFailed, expired, marked, live,
                   fresh, otherVars>>

\* main: tokio::time::sleep(fetch_interval), then the next turn of `loop`
FetchSleep ==
    /\ pc = "fetch_sleep"
    /\ fsleeps' = Bump(fsleeps)
    /\ pc' = "fetch"
    /\ Slept
    /\ UNCHANGED <<overflow_checks, config, repos, repo, store, checked, sent,
                   posted, fetched, storeFailed, expired, marked, live, fresh, otherVars>>

\* redis: one unit of time passes; a record whose time-to-live runs out is gone
Tick ==
    /\ \E k \in Keys : store[k] > 0
    /\ store' = [k \in Keys |-> IF store[k] > 0 THEN store[k] - 1 ELSE 0]
    /\ expired' = (expired \/ \E k \in Keys : store[k] = 1)
    /\ live' = [id \in Identities |-> IF live[id] > 0 THEN live[id] - 1 ELSE 0]
    /\ UNCHANGED <<overflow_checks, config, pc, repos, repo, checked, sent, posted,
                   fetched, fsleeps, storeFailed, marked, quiet, fresh, otherVars>>

\* the positions of the main task at which one of its steps is enabled
LoopPositions ==
    {"fetch", "for", "check", "twitter", "mastodon", "bluesky", "mark",
     "post_sleep", "fetch_sleep"}

\* the steps of the main task
MainStep ==
    \/ Fetch
    \/ ForRepo
    \/ SkipTest
    \/ Tweet
    \/ Toot
    \/ PostBluesky
    \/ MarkPosted
    \/ PostSleep
    \/ FetchSleep

Next == MainStep \/ Tick

Spec == Init /\ [][Next]_vars

-----------------------------------------------------------------------------
(* DenylistConfig::contains on its own: every small denylist and item *)

Names2 == {<<"a">>, <<"A">>}
DescChars == {"a", "A"}

DenyInputs ==
    [names : SeqsUpTo(Names2, MaxEntries),
     authors : SeqsUpTo(Names2, MaxEntries),
     descriptions : SeqsUpTo(SeqsUpTo(DescChars, MaxNeedleLen), MaxEntries)]

RepoInputs ==
    [author : Names2, name : Names2,
     description : SeqsUpTo(DescChars, MaxDescLen), stars : {0}]

\* the control loop is not running
LoopIdle ==
    /\ config = [twitter |-> FALSE, mastodon |-> FALSE, bluesky |-> FALSE,
                 denylist |-> DenyNone]
    /\ pc = "off"
    /\ repos = <<>>
    /\ repo = NoRepo
    /\ store = [k \in Keys |-> 0]
    /\ checked = "none"
    /\ sent = NoneSent
    /\ posted = [id \in Identities |-> [d \in Dest |-> 0]]
    /\ fetched = "none"
    /\ fsleeps = 0
    /\ storeFailed = FALSE
    /\ expired = FALSE
    /\ marked = "none"
    /\ live = [id \in Identities |-> 0]
    /\ quiet = [d \in Dest |-> TRUE]
    /\ fresh = TRUE

LoopOff == overflow_checks = FALSE /\ LoopIdle

InitDeny ==
    /\ LoopOff
    /\ IdleFmt
    /\ LibOff
    /\ d_in \in DenyInputs \X RepoInputs
    /\ d_out = <<>>

CallContains ==
    /\ d_out = <<>>
    /\ d_out' = <<contains(d_in[1], d_in[2])>>
    /\ UNCHANGED <<d_in, loopVars, fmtVars, libVars>>

SpecDeny == InitDeny /\ [][CallContains]_vars

-----------------------------------------------------------------------------
(* The formatters on their own: items around every boundary of the budget *)

FmtDests == {"twitter", "mastodon", "bluesky", "lib"}

\* the Repo of lib.rs (repo.rs) for an item: the API's url is the repository's
LibRepo(r) ==
    [author |-> r.author, name |-> r.name, description |-> r.description,
     stars |-> r.stars, forks |-> 0, url |-> GithubUrl \o r.author \o <<"/">> \o r.name]

\* the text a destination's formatter makes of an item
Format(d, r) ==
    CASE d = "twitter" -> make_tweet(r)
      [] d = "mastodon" -> make_toot(r)
      [] d = "bluesky" -> bluesky_text(r)
      [] d = "lib" -> tweet_repo(LibRepo(r))

Budget(d) ==
    CASE d = "twitter" -> TWEET_LENGTH
      [] d = "mastodon" -> TOOT_LENGTH
      [] d = "bluesky" -> BLUESKY_POST_LENGTH
      [] d = "lib" -> TWEET_LENGTH

\* prefix.len() + stars.len() + url.len(), the URL as the destination counts it
Furniture(d, r) ==
    ByteLen(make_post_prefix(r)) + ByteLen(make_post_stars(r))
      + (IF d = "mastodon" THEN MASTODON_FIXED_URL_LENGTH ELSE ByteLen(make_post_url(r)))

\* the name length at which a tweet of the longest author has 2 or 3 bytes left
TightNameLen ==
    CHOOSE n \in 1..MaxNameLen :
        TWEET_LENGTH - Furniture("twitter",
            NewRepo(Rep("a", MaxAuthorLen), Rep("n", n), <<>>, 0)) \in {2, 3}

FmtIds ==
    {<< <<"f">>, <<"b">> >>, << <<"g">>, <<"g">> >>,
     <<Rep("a", MaxAuthorLen), Rep("n", TightNameLen)>>,
     <<Rep("a", MaxAuthorLen), Rep("n", MaxNameLen)>>}

Leads == {<<>>, <<"@">>, <<"e", "CM">>}
Fills == {"a", "@", "E2", "R4", "RI"}

\* descriptions of a lead and a run of one character, of about ll bytes
DescInputs(ll) ==
    {lead \o Rep(fill, n) :
        lead \in Leads, fill \in Fills,
        n \in {0, 1, 4} \cup {m \in {(ll + k) \div 4 : k \in -Slack..Slack} : m >= 0}
            \cup {m \in {(ll + k) \div 2 : k \in -Slack..Slack} : m >= 0}
            \cup {m \in {ll + k : k \in -Slack..Slack} : m >= 0}}

FmtInputs ==
    UNION {{<<d, NewRepo(id[1], id[2], desc, 0)>> :
               desc \in DescInputs(Budget(d) - Furniture(d, NewRepo(id[1], id[2], <<>>, 0)))} :
           d \in FmtDests, id \in FmtIds}

InitFormat ==
    /\ overflow_checks \in BOOLEAN
    /\ LoopIdle
    /\ IdlePure
    /\ LibOff
    /\ f_in \in FmtInputs
    /\ f_out = <<>>

CallFormat ==
    /\ f_out = <<>>
    /\ f_out' = <<Format(f_in[1], f_in[2])>>
    /\ UNCHANGED <<f_in, loopVars, pureVars, libVars>>

SpecFormat == InitFormat /\ [][CallFormat]_vars

-----------------------------------------------------------------------------
(* run_loop of lib.rs: the fetch stream, the timed stream and for_each *)

\* Blacklist::is_listed
is_listed(b, r) == VecContains(b.authors, r.author) \/ VecContains(b.names, r.name)

NoList == [names |-> <<>>, authors |-> <<>>]
ListX == [names |-> <<>>, authors |-> << <<"x">> >>]

\* x/b is on ListX and shares its name with f/b; g/g has the description
\* that tweet_repo cannot cut
LibRepos ==
    {LibRepo(RepoPlain), LibRepo(NewRepo(<<"x">>, <<"b">>, <<"o", "k">>, 0)),
     LibRepo(RepoLong)}

LibBatches == SeqsUpTo(LibRepos, MaxBatch)

\* storage.rs: the key of a record is repo.name
LibKeys == {r.name : r \in LibRepos}

LibIdentities == {Identity(r) : r \in LibRepos}

InitLib ==
    /\ LoopOff
    /\ IdlePure
    /\ IdleFmt
    /\ blacklist \in {NoList, ListX}
    /\ rl_pc = "delay"
    /\ rl_repos = <<>>
    /\ rl_repo = NoRepo
    /\ rl_store = [k \in LibKeys |-> 0]
    /\ rl_asked = <<>>
    /\ rl_tweet = "none"
    /\ rl_error = "none"
    /\ rl_live = [id \in LibIdentities |-> 0]

\* TimedStream::poll: the delay has run out and the inner stream is polled
TimedDelay ==
    /\ rl_pc = "delay"
    /\ rl_pc' = "pull"
    /\ UNCHANGED <<blacklist, rl_repos, rl_repo, rl_store, rl_asked, rl_tweet,
                   rl_error, rl_live, loopVars, pureVars, fmtVars>>

\* flatten: the inner stream is exhausted (or there is none yet) and the
\* Interval ticks; its map closure calls fetch_repos
IntervalTick ==
    /\ rl_pc = "pull"
    /\ rl_repos = <<>>
    /\ rl_pc' = "fetch"
    /\ UNCHANGED <<blacklist, rl_repos, rl_repo, rl_store, rl_asked, rl_tweet,
                   rl_error, rl_live, loopVars, pureVars, fmtVars>>

\* an Err reaches for_each: its future fails, and or_else logs the error and
\* completes run_loop with Ok(())
StreamEnds(e) ==
    /\ rl_error' = e
    /\ rl_pc' = "done"

\* fetch_repos().map(iter_ok).flatten_stream(): the items of the answer, or
\* the error of the request
LibFetch ==
    /\ rl_pc = "fetch"
    /\ \/ /\ \E batch \in LibBatches : rl_repos' = batch
          /\ rl_pc' = "pull"
          /\ UNCHANGED rl_error
       \/ /\ StreamEnds("fetch")
          /\ UNCHANGED rl_repos
    /\ UNCHANGED <<blacklist, rl_repo, rl_store, rl_asked, rl_tweet, rl_live, loopVars,
                   pureVars, fmtVars>>

\* the next item of the inner stream: and_then(is_repo_already_tweeted), then
\* filter(not tweeted), then filter(not blacklisted)
PullItem ==
    /\ rl_pc = "pull"
    /\ rl_repos # <<>>
    /\ rl_asked' = <<Head(rl_repos)>>
    /\ \/ /\ StreamEnds("exists")
          /\ UNCHANGED <<rl_repos, rl_repo>>
       \/ /\ rl_repos' = Tail(rl_repos)
          /\ UNCHANGED rl_error
          /\ IF rl_store[Head(rl_repos).name] # 0
             THEN UNCHANGED <<rl_pc, rl_repo>>
             ELSE IF is_listed(blacklist, Head(rl_repos))
             THEN UNCHANGED <<rl_pc, rl_repo>>
             ELSE rl_repo' = Head(rl_repos) /\ rl_pc' = "tweet"
    /\ UNCHANGED <<blacklist, rl_store, rl_tweet, rl_live, loopVars, pureVars, fmtVars>>

\* for_each: tweet_repo(&token.0, &token.1, &r)
LibTweet ==
    /\ rl_pc = "tweet"
    /\ IF tweet_repo(rl_repo).panic
       THEN rl_tweet' = "panic" /\ rl_pc' = "panicked" /\ UNCHANGED rl_error
       ELSE \/ rl_tweet' = "ok" /\ rl_pc' = "setnx" /\ UNCHANGED rl_error
            \/ rl_tweet' = "err" /\ StreamEnds("tweet")
    /\ UNCHANGED <<blacklist, rl_repos, rl_repo, rl_store, rl_asked, rl_live, loopVars,
                   pureVars, fmtVars>>

\* mark_repo_as_tweeted: SETNX name ts; val == 1 when the key was set
Setnx ==
    /\ rl_pc = "setnx"
    /\ \/ /\ StreamEnds("setnx")
          /\ UNCHANGED <<rl_store, rl_live>>
       \/ /\ UNCHANGED rl_error
          /\ IF rl_store[rl_repo.name] = 0
             THEN /\ rl_store' = [rl_store EXCEPT ![rl_repo.name] = -1]
                  /\ rl_live' = [rl_live EXCEPT ![Identity(rl_repo)] = -1]
                  /\ rl_pc' = "expire"
             ELSE /\ UNCHANGED <<rl_store, rl_live>>
                  /\ rl_pc' = "delay"
    /\ UNCHANGED <<blacklist, rl_repos, rl_repo, rl_asked, rl_tweet, loopVars,
                   pureVars, fmtVars>>

\* mark_repo_as_tweeted: EXPIRE name tweet_ttl, a second command
Expire ==
    /\ rl_pc = "expire"
    /\ \/ /\ StreamEnds("expire")
          /\ UNCHANGED <<rl_store, rl_live>>
       \/ /\ UNCHANGED rl_error
          /\ rl_store' = [rl_store EXCEPT ![rl_repo.name] =
                             IF @ = 0 THEN 0 ELSE TweetTtl]
          /\ rl_live' = [rl_live EXCEPT ![Identity(rl_repo)] =
                            IF rl_store[rl_repo.name] = 0 THEN 0 ELSE TweetTtl]
          /\ rl_pc' = "delay"
    /\ UNCHANGED <<blacklist, rl_repos, rl_repo, rl_asked, rl_tweet, loopVars,
                   pureVars, fmtVars>>

\* redis: one unit of time passes for the records that have an expiry
LibStoreTick ==
    /\ \E k \in LibKeys : rl_store[k] > 0
    /\ rl_store' = [k \in LibKeys |-> IF rl_store[k] > 0 THEN rl_store[k] - 1
                                       ELSE rl_store[k]]
    /\ rl_live' = [id \in LibIdentities |-> IF rl_live[id] > 0 THEN rl_live[id] - 1
                                            ELSE rl_live[id]]
    /\ UNCHANGED <<blacklist, rl_pc, rl_repos, rl_repo, rl_asked, rl_tweet,
                   rl_error, loopVars, pureVars, fmtVars>>

NextLib ==
    \/ TimedDelay
    \/ IntervalTick
    \/ LibFetch
    \/ PullItem
    \/ LibTweet
    \/ Setnx
    \/ Expire
    \/ LibStoreTick

SpecLib == InitLib /\ [][NextLib]_vars

-----------------------------------------------------------------------------
(* The mark on its own: either program is about to mark an item, and the    *)
(* store, which outlives the process and is shared by every instance that  *)
(* is given the same redis_url, holds whatever earlier marks left in it.   *)

\* main_loop has published an item and is at mark_posted_repo
InitMarkMain ==
    /\ overflow_checks = FALSE
    /\ config = [twitter |-> FALSE, mastodon |-> FALSE, bluesky |-> FALSE,
                 denylist |-> DenyNone]
    /\ pc = "mark"
    /\ repos = <<>>
    /\ repo \in Repos
    /\ store \in [Keys -> 0..PostTtl]
    /\ checked = "absent"
    /\ sent = NoneSent
    /\ posted = [id \in Identities |-> [d \in Dest |-> 0]]
    /\ fetched = "ok"
    /\ fsleeps = 0
    /\ storeFailed = FALSE
    /\ expired = FALSE
    /\ marked = "none"
    /\ live = [id \in Identities |-> 0]
    /\ quiet = [d \in Dest |-> TRUE]
    /\ fresh = FALSE
    /\ LibOff

\* for_each of run_loop has tweeted an item and is at mark_repo_as_tweeted
InitMarkLib ==
    /\ LoopOff
    /\ blacklist = NoList
    /\ rl_pc = "setnx"
    /\ rl_repos = <<>>
    /\ rl_repo \in LibRepos
    /\ rl_store \in [LibKeys -> -1..TweetTtl]
    /\ rl_asked = <<rl_repo>>
    /\ rl_tweet = "ok"
    /\ rl_error = "none"
    /\ rl_live = [id \in LibIdentities |-> 0]

InitMark ==
    /\ IdlePure
    /\ IdleFmt
    /\ (InitMarkMain \/ InitMarkLib)

NextMark ==
    \/ MarkPosted
    \/ Setnx
    \/ Expire

SpecMark == InitMark /\ [][NextMark]_vars

-----------------------------------------------------------------------------
(* Properties of main and main_loop *)

Publishing == {"twitter", "mastodon", "bluesky"}

\* every configured destination has exactly one attempt of the current item,
\* and no other destination has any
AllAttempted == \A d \in Dest : Len(sent[d]) = IF config[d] THEN 1 ELSE 0

\* a step of SkipTest, MarkPosted in which the redis command fails
StoreFailureStep ==
    \/ pc = "check" /\ checked' = "error"
    \/ pc = "mark" /\ marked' = "err"

\* C1: once an item has passed the denylist and the dedup check and main_loop
\* is through with publishing it, each configured destination has had exactly
\* one publish attempt of it, whatever the outcomes of the other attempts.
C1_EachDestinationOnce ==
    (checked = "absent" /\ pc \notin Publishing) => AllAttempted

\* C2: every item that has passed the denylist and the dedup check has its
\* mark issued once main_loop is through with publishing it, the mark comes
\* after all its publish attempts, and a mark that succeeds leaves the record
\* with the full configured time-to-live.
C2_MarkedAfterPublishing ==
    /\ []((checked = "absent" /\ pc \notin Publishing \cup {"mark"})
             => marked # "none")
    /\ [](marked # "none" => AllAttempted)
    /\ [][(pc = "mark" /\ marked' = "ok") => store'[KeyOf(repo)] = PostTtl]_vars

\* C3: publishing and marking happen only after the existence check of the
\* item has answered "no record"; when the record exists at the check, the
\* step publishes nothing, writes nothing and leaves the item.
C3_PostedIsSkipped ==
    /\ [](pc \in Publishing \cup {"mark", "post_sleep"} => checked = "absent")
    /\ [](checked = "present" => sent = NoneSent /\ marked = "none")
    /\ [][(pc = "check" /\ pc' # "check" /\ ~contains(config.denylist, repo)
              /\ store[KeyOf(repo)] > 0)
            => (pc' \in {"for", "fetch_sleep"} /\ sent' = NoneSent
                /\ posted' = posted /\ store' = store /\ marked' = "none")]_vars

\* C3 witness: an item was found in the store and skipped with nothing sent
C3_Witness ==
    checked = "present" /\ pc = "for" /\ store[KeyOf(repo)] > 0

\* C4: as long as no redis command has failed and no record has expired, no
\* identity has been handed to a destination more than once.
C4_AtMostOncePerIdentity ==
    (~storeFailed /\ ~expired)
        => \A id \in Identities : \A d \in Dest : posted[id][d] <= 1

\* C4 witness: the repository comes back with another description after it
\* was published, and is skipped
C4_Witness ==
    /\ ~storeFailed /\ ~expired
    /\ repo = RepoSpam /\ checked = "present"
    /\ \E d \in Dest : posted[Identity(repo)][d] = 1

\* C5: a failing redis command for one item leaves the rest of the batch in
\* place and main_loop goes on with it.
C5_StoreFailureKeepsBatch ==
    [][(StoreFailureStep /\ repos # <<>>)
         => (pc' \in {"for", "post_sleep"} /\ repos' = repos)]_vars

\* C6 as stated: an item whose existence check or mark failed has not been
\* handed to any destination.
C6_FailedItemUnpublished ==
    (checked = "error" \/ marked = "err") => sent = NoneSent

\* C6 amended: an item whose existence check failed has not been handed to
\* any destination and its mark is not issued; an item whose mark failed has
\* been handed to every configured destination, once each.
C6_FailedCheckUnpublished ==
    /\ checked = "error" => (sent = NoneSent /\ marked = "none")
    /\ marked = "err" => AllAttempted

\* C6 witness: the mark fails after the item went out to Twitter
C6_Witness ==
    marked = "err" /\ sent["twitter"] = <<"ok">> /\ store[KeyOf(repo)] = 0

\* C7: the main task is always at a position of its loop, where it has a next
\* step, whatever the fetch, the store, the destinations and the items do.
C7_LoopNeverStops == pc \in LoopPositions

\* C8: a failed fetch publishes nothing and writes nothing, the cycle has
\* no item, and the next fetch comes after exactly one discovery sleep.
C8_FetchFailure ==
    /\ [](fetched = "err"
             => /\ pc \in {"fetch_sleep", "fetch"}
                /\ repos = <<>>
                /\ (pc = "fetch" => fsleeps = 1))
    /\ [][(pc = "fetch" /\ pc' # "fetch" /\ fetched' = "err")
            => (pc' = "fetch_sleep" /\ store' = store /\ posted' = posted
                /\ sent' = sent /\ marked' = marked)]_vars

\* C8 witness: the fetch after a failed one is about to start, with records
\* in the store
C8_Witness ==
    /\ fetched = "err" /\ pc = "fetch" /\ fsleeps = 1
    /\ \E k \in Keys : store[k] > 0

\* C9: an item the denylist excludes is at no publishing or marking step, has
\* no publish attempt and no mark.
C9_DeniedNeverPublished ==
    \/ /\ pc \notin Publishing \cup {"mark", "post_sleep", "panicked"}
       /\ sent = NoneSent
       /\ marked = "none"
    \/ ~contains(config.denylist, repo)

\* C9 witness: a denylisted item is skipped while the store holds a record
\* under its key (written for the same repository seen with a description
\* that is not excluded)
C9_Witness ==
    checked = "denied" /\ pc = "for" /\ store[KeyOf(repo)] > 0

-----------------------------------------------------------------------------
(* Properties of DenylistConfig::contains *)

\* needle occurs in hay as a run of consecutive characters
IsSubstring(needle, hay) ==
    \E a \in 0..Len(hay) : \E b \in a..Len(hay) : SubSeq(hay, a + 1, b) = needle

\* the exclusion rule: an exact name, an exact author, or an entry of
\* descriptions inside the description when both are lower-cased
Excluded(denylist, r) ==
    \/ \E i \in DOMAIN denylist.names : denylist.names[i] = r.name
    \/ \E i \in DOMAIN denylist.authors : denylist.authors[i] = r.author
    \/ \E i \in DOMAIN denylist.descriptions :
          IsSubstring(to_lowercase(denylist.descriptions[i]),
                      to_lowercase(r.description))

\* C10: contains returns true exactly for the items the exclusion rule names,
\* and false for every item when the three lists are empty.
C10_ContainsIsTheRule ==
    d_out # <<>>
        => /\ d_out[1] = Excluded(d_in[1], d_in[2])
           /\ (d_in[1] = DenyNone => d_out[1] = FALSE)

\* C10 witness: only the description criterion matches, and only because of
\* the lower-casing of both sides
C10_Witness ==
    /\ d_out = <<TRUE>>
    /\ d_in[1].names = <<>> /\ d_in[1].authors = <<>>
    /\ d_in[1].descriptions = << <<"A", "a">> >>
    /\ d_in[2].description = <<"A", "a", "A">>

\* C11: while the record of a successful mark has not expired, every
\* existence check that answers for an item of the same author and name
\* answers true, whatever the item's description and stars.
C11_PostedUntilExpiry ==
    [][(pc = "check" /\ checked' \in {"present", "absent"}
          /\ live[Identity(repo)] > 0)
       => checked' = "present"]_vars

\* C11 witness: f/b was marked with one description, a tick has passed, and
\* the check of f/b with another description and star count answered true
C11_Witness ==
    /\ repo = RepoSpam
    /\ checked = "present"
    /\ live[Identity(RepoSpam)] = PostTtl - 1
    /\ posted[Identity(RepoSpam)]["twitter"] = 1

\* C16: the item main_loop takes next is the first of those the fetch
\* returned that it has not taken yet, and it takes it only when it is the
\* first of the batch or the item before it has been skipped, or published
\* to every configured destination and marked.
C16_InOrderOneAtATime ==
    [][(pc = "for" /\ pc' = "check")
       => /\ repo' = Head(repos)
          /\ repos' = Tail(repos)
          /\ \/ fresh
             \/ checked \in {"denied", "present"}
             \/ marked = "ok" /\ AllAttempted]_vars

\* C16 witness: the second item of a batch is taken, right after the first
\* was published to Twitter and marked
C16_Witness ==
    /\ pc = "check" /\ ~fresh
    /\ repo = RepoLong /\ repos = <<>>
    /\ live[Identity(RepoPlain)] = PostTtl
    /\ posted[Identity(RepoPlain)]["twitter"] = 1

\* C17: a publish attempt to a destination is made only when a sleep of the
\* main task has ended since the last attempt to that destination.
C17_SleepBetweenPublishes ==
    [][\A d \in Dest :
         (sent'[d] # sent[d] /\ sent'[d] # <<>>) => quiet[d]]_vars

\* C17 witness: two different items were attempted on Bluesky within one
\* batch, the sleep after the first one in between
C17_Witness ==
    /\ repo = RepoLong /\ ~fresh
    /\ sent["bluesky"] = <<"err">>
    /\ posted[Identity(RepoLong)]["bluesky"] = 1
    /\ posted[Identity(RepoPlain)]["bluesky"] = 1
    /\ live[Identity(RepoPlain)] = PostTtl

\* C18: when main_loop is about to fetch, main has slept its discovery
\* interval exactly once since the fetch before (and not at all before the
\* first fetch).
C18_OneSleepBetweenFetches ==
    pc = "fetch" => fsleeps = IF fetched = "none" THEN 0 ELSE 1

\* C18 witness: the next fetch is due after a cycle that a failed mark ended
C18_Witness ==
    /\ pc = "fetch" /\ fsleeps = 1
    /\ fetched = "ok" /\ marked = "err"

-----------------------------------------------------------------------------
(* Properties of the formatters *)

\* whether a user-perceived character (grapheme cluster) of s starts at i: a
\* combining mark extends the character before it, and regional indicators
\* pair up into flags from the start of their run
IsStart(s, i) ==
    IF s[i] = "CM" THEN i = 1
    ELSE IF s[i] = "RI"
    THEN LET k == CHOOSE k \in 0..(i - 1) :
                      /\ (k = 0 \/ s[k] # "RI")
                      /\ \A m \in (k + 1)..(i - 1) : s[m] = "RI"
         IN  (i - 1 - k) % 2 = 0
    ELSE TRUE

\* the length of s in user-perceived characters
Graphemes(s) == Cardinality({i \in 1..Len(s) : IsStart(s, i)})

\* the formatter has been called on the input
Called == f_out # <<>>

\* the length of a formatted text as its destination counts it: Mastodon
\* counts every URL as MASTODON_FIXED_URL_LENGTH characters
Counted(d, r, text) ==
    IF d = "mastodon"
    THEN Graphemes(text) - Len(GithubUrl \o r.author \o <<"/">> \o r.name)
           + MASTODON_FIXED_URL_LENGTH
    ELSE Graphemes(text)

\* C12: a formatted announcement of make_tweet, make_toot or the Bluesky
\* text is at most the destination's budget long, counted in user-perceived
\* characters (the URL as 23 for Mastodon), whatever the description.
C12_WithinBudget ==
    (Called /\ f_in[1] \in Dest /\ ~f_out[1].panic)
        => Counted(f_in[1], f_in[2], f_out[1].val) <= Budget(f_in[1])

\* the item's description as the destination's formatter sanitizes it
Sanitized(d, r) == IF d = "lib" THEN r.description ELSE ReplaceAt(r.description)

\* what stands between the prefix and the stars in a formatted text
DescOut(r, text) ==
    SubSeq(text, Len(make_post_prefix(r)) + 1,
           Len(text) - Len(make_post_stars(r)) - Len(make_post_url(r)))

EndsWithEllipsis(s) ==
    Len(s) >= 4 /\ SubSeq(s, Len(s) - 3, Len(s)) = Ellipsis

\* the budget minus the furniture, as an integer
LengthLeft(d, r) == Budget(d) - Furniture(d, r)

PlainAscii(s) == \A i \in DOMAIN s : s[i] = "a"

\* C13 as stated: a description of exactly length_left is given whole, with
\* no " ..." appended, and one a unit longer is cut and ends with " ...".
\* Stated for descriptions of plain ASCII letters, where bytes, scalar
\* values and user-perceived characters are the same unit.
C13_ExactFitNotTruncated ==
    (Called /\ PlainAscii(f_in[2].description))
        => /\ Len(f_in[2].description) = LengthLeft(f_in[1], f_in[2])
                => /\ ~f_out[1].panic
                   /\ DescOut(f_in[2], f_out[1].val) = f_in[2].description
           /\ Len(f_in[2].description) = LengthLeft(f_in[1], f_in[2]) + 1
                => /\ ~f_out[1].panic
                   /\ EndsWithEllipsis(DescOut(f_in[2], f_out[1].val))

\* C13 amended: with the furniture within the budget, a description of
\* fewer bytes than length_left is given whole (sanitized); one of
\* length_left bytes or more takes the truncating branch, which either
\* panics or gives the first length_left - 4 bytes of the sanitized
\* description followed by " ...".
C13_BelowFitsElseTruncated ==
    (Called /\ LengthLeft(f_in[1], f_in[2]) >= 0)
        => LET d == f_in[1]
               r == f_in[2]
               ll == LengthLeft(d, r)
               out == DescOut(r, f_out[1].val)
           IN  IF ByteLen(r.description) < ll
               THEN ~f_out[1].panic /\ out = Sanitized(d, r)
               ELSE \/ f_out[1].panic
                    \/ /\ EndsWithEllipsis(out)
                       /\ SubSeq(out, 1, Len(out) - 4)
                            = SubSeq(Sanitized(d, r), 1, Len(out) - 4)
                       /\ ByteLen(out) = ll

\* C13 witness: a description of exactly length_left ASCII bytes came back
\* cut to length_left - 4 bytes and " ..."
C13_Witness ==
    /\ Called /\ ~f_out[1].panic
    /\ f_in[1] = "twitter"
    /\ PlainAscii(f_in[2].description)
    /\ Len(f_in[2].description) = LengthLeft("twitter", f_in[2])
    /\ DescOut(f_in[2], f_out[1].val)
         = SubSeq(f_in[2].description, 1, LengthLeft("twitter", f_in[2]) - 4) \o Ellipsis

\* C14: with room for the furniture and the ellipsis, the formatter of
\* main.rs returns for every description; a description of fewer
\* user-perceived characters than length_left is given whole (sanitized), a
\* longer one as its first length_left - 4 whole user-perceived characters
\* followed by " ...".
C14_WholeCharacters ==
    (Called /\ f_in[1] \in Dest /\ LengthLeft(f_in[1], f_in[2]) >= 4)
        => /\ ~f_out[1].panic
           /\ LET d == f_in[1]
                  r == f_in[2]
                  ll == LengthLeft(d, r)
                  san == Sanitized(d, r)
                  out == DescOut(r, f_out[1].val)
                  cut == Len(out) - 4
              IN  IF Graphemes(san) < ll
                  THEN out = san
                  ELSE /\ EndsWithEllipsis(out)
                       /\ SubSeq(out, 1, cut) = SubSeq(san, 1, cut)
                       /\ Graphemes(SubSeq(san, 1, cut)) = ll - 4
                       /\ (cut = Len(san) \/ IsStart(san, cut + 1))

\* C15: whenever a formatter is called, the furniture is shorter than the
\* budget, and length_left is at least 4 when the description is cut: neither
\* subtraction underflows.
C15_NoUnderflow ==
    Called
        => /\ Furniture(f_in[1], f_in[2]) < Budget(f_in[1])
           /\ ByteLen(f_in[2].description) >= LengthLeft(f_in[1], f_in[2])
                => LengthLeft(f_in[1], f_in[2]) >= 4

-----------------------------------------------------------------------------
(* Properties of the order of filter and store *)

\* C20: no store command is issued for a denylisted item: in main_loop such
\* an item has neither an answer of the existence check nor a mark, and in
\* the fetch stream of run_loop the item given to is_repo_already_tweeted is
\* never a blacklisted one.
C20_DenylistBeforeStore ==
    /\ \/ checked \in {"none", "denied"} /\ marked = "none"
       \/ ~contains(config.denylist, repo)
    /\ rl_asked # <<>> => ~is_listed(blacklist, rl_asked[1])

-----------------------------------------------------------------------------
(* Properties of the dedup store *)

\* C21: a mark that succeeds leaves the record of its key with the full
\* configured time-to-live, whether or not the key had a record before:
\* mark_posted_repo of main.rs and mark_repo_as_tweeted of storage.rs.
C21_MarkRefreshesExpiry ==
    [][/\ (marked # "ok" /\ marked' = "ok") => store'[KeyOf(repo)] = PostTtl
       /\ (rl_pc \in {"setnx", "expire"} /\ rl_pc' = "delay")
            => rl_store'[rl_repo.name] = TweetTtl]_vars

\* C22: every record in the store has an expiry, in every state: the store of
\* main.rs and the store of storage.rs.
C22_EveryRecordExpires ==
    /\ \A k \in DOMAIN store : store[k] >= 0
    /\ \A k \in DOMAIN rl_store : rl_store[k] # -1

\* C23: run_loop does not complete: whatever fails inside a cycle, the
\* pipeline stays at one of its working positions.
C23_RunLoopNeverCompletes == rl_pc # "done"

\* C24: a tweet attempt, successful or failed, is followed by the mark of the
\* tweeted item, and a mark that completes leaves the record at the full
\* configured time-to-live.
C24_TweetedThenMarked ==
    [][/\ (rl_pc = "tweet" /\ rl_tweet' \in {"ok", "err"}) => rl_pc' = "setnx"
       /\ (rl_pc \in {"setnx", "expire"} /\ rl_pc' = "delay")
            => rl_store'[rl_repo.name] = TweetTtl]_vars

\* C25: an existence check answers true for an item only when a mark of an
\* item of the same author and name has left a record: with the key of
\* main.rs and with the key of storage.rs.
C25_NoInterference ==
    [][/\ (pc = "check" /\ checked' = "present") => live[Identity(repo)] > 0
       /\ (rl_pc = "pull" /\ rl_repos # <<>> /\ rl_repos' # rl_repos
             /\ rl_store[Head(rl_repos).name] # 0)
            => rl_live[Identity(Head(rl_repos))] # 0]_vars

====
